---- MODULE Spec2Model ----
(***************************************************************************)
(* FIRST / FOLLOW / PREDICT analysis of first_follow_pred_full_commented.py *)
(*                                                                         *)
(* One Grammar object is modelled: its two constructor arguments, its      *)
(* caches, and the Python call stack of the method that is running.  A     *)
(* method call pushes a frame; every step executes the statements of the   *)
(* top frame up to its next call or return, exactly as the interpreter     *)
(* would, so the recursion first -> first_of_rhs -> first and the          *)
(* placeholder entry of _first_cache are visible state.                    *)
(***************************************************************************)
EXTENDS Integers, Sequences, FiniteSets, TLC

VARIABLES
    productions,        \* self.productions: dict, as the sequence of its items <<A, rhss>>
    start,              \* self.start
    _first_cache,       \* self._first_cache: nonterminal -> set
    _first_rhs_cache,   \* self._first_rhs_cache: tuple -> set
    _follow_cache,      \* self._follow_cache: nonterminal -> set
    stack,              \* frames of the running call, innermost last
    ret,                \* the set handed back by the first / first_of_rhs that returned last
    preds,              \* the dict handed back by the prediction_sets that returned last
    raised,             \* "none", or the exception that ended the last call
    cur,                \* the public call in progress or finished last
    again,              \* history: cur repeats a public call that has returned before
    returned,           \* history: what each public call returned the first time
    twin                \* a second, independent Grammar object on the same arguments

vars == <<productions, start, _first_cache, _first_rhs_cache, _follow_cache,
          stack, ret, preds, raised, cur, again, returned, twin>>

EPS == "ε"
END == "$"

\* The symbols of the modelled grammars that str.isalpha() and str.isupper() accept.
UpperAlpha == {"S", "A", "B", "C", "D", "Z"}

is_nonterminal(sym) == sym \in UpperAlpha

(***************************************************************************)
(* Helpers over the dict self.productions                                  *)
(***************************************************************************)
Keys(p) == {p[j][1] : j \in DOMAIN p}

\* a slip in the default: p.get(X, [[]])
Get_default_body(p, X) ==
    IF X \in Keys(p) THEN p[CHOOSE j \in DOMAIN p : p[j][1] = X][2] ELSE << <<>> >>

\* p.get(X, [])
Get(p, X) ==
    IF X \in Keys(p) THEN p[CHOOSE j \in DOMAIN p : p[j][1] = X][2] ELSE <<>>

RECURSIVE Concat(_)
Concat(ss) == IF ss = <<>> THEN <<>> ELSE Head(ss) \o Concat(Tail(ss))

\* for A, rhss in p.items(): for rhs in rhss  -- the pairs <<A, rhs>> in loop order
Items(p) ==
    Concat([j \in DOMAIN p |-> [r \in DOMAIN p[j][2] |-> <<p[j][1], p[j][2][r]>>]])

\* ... for i, B in enumerate(symbols): if not is_nonterminal(B): continue
\* -- the triples <<A, rhs, i>> that reach the body of the innermost loop
IsOcc(o) == is_nonterminal(o[2][o[3]])

Occurrences(p) ==
    LET it == Items(p) IN
    Concat([n \in DOMAIN it |->
        SelectSeq([i \in DOMAIN it[n][2] |-> <<it[n][1], it[n][2], i>>], IsOcc)])

\* symbols[i+1:]
Rest(rhs, i) == SubSeq(rhs, i + 1, Len(rhs))

\* f"{A} -> {' '.join(rhs) if rhs else 'ε'}"
Key(A, rhs) == <<A, IF rhs = <<>> THEN <<EPS>> ELSE rhs>>

Put(f, k, v) == IF k \in DOMAIN f THEN [f EXCEPT ![k] = v] ELSE f @@ (k :> v)

(***************************************************************************)
(* The interpreter.  m is the mutable part of one Grammar object plus its  *)
(* call stack: [p, start, fc, rc, fo, stack, ret, preds, raised].          *)
(* follow_all returns self._follow_cache itself, so its value is m.fo.     *)
(***************************************************************************)
Top(m) == m.stack[Len(m.stack)]
Pop(m) == SubSeq(m.stack, 1, Len(m.stack) - 1)
SetTop(m, f) == [m EXCEPT !.stack = [@ EXCEPT ![Len(@)] = f]]
Return(m, v) == [m EXCEPT !.stack = Pop(m), !.ret = v]
Raise(m, e) == [m EXCEPT !.stack = <<>>, !.raised = e, !.ret = {}]

Frame(fn, pc) ==
    [fn |-> fn, pc |-> pc, X |-> "", rhs |-> <<>>, k |-> 1, result |-> {},
     changed |-> FALSE, preds |-> <<>>]

\* first(X), from the call to the first statement of its loop
Call_first(m, X) ==
    IF X \in DOMAIN m.fc
    THEN [m EXCEPT !.ret = m.fc[X]]
    ELSE [m EXCEPT !.fc = Put(@, X, {}),
                   !.stack = Append(@, [Frame("first", "loop") EXCEPT !.X = X])]

\* first_of_rhs(rhs), from the call to the first statement of its loop
Call_first_of_rhs(m, rhs) ==
    IF rhs \in DOMAIN m.rc
    THEN [m EXCEPT !.ret = m.rc[rhs]]
    ELSE IF Len(rhs) = 0
    THEN [m EXCEPT !.rc = Put(@, rhs, {EPS}), !.ret = {EPS}]
    ELSE [m EXCEPT !.stack = Append(@, [Frame("first_of_rhs", "loop") EXCEPT !.rhs = rhs])]

\* result.update(x for x in s if x != 'ε')
UpdateNoEps(result, s) == result \cup {x \in s : x # EPS}

\* first: one iteration of "for alpha in self.productions.get(X, [])"
first_merge(result, first_alpha) ==
    LET r1 == UpdateNoEps(result, first_alpha)
    IN  IF EPS \in first_alpha THEN r1 \cup {EPS} ELSE r1

Step_first(m) ==
    LET f == Top(m)
        alts == Get(m.p, f.X)
    IN  IF f.pc = "loop"
        THEN IF f.k > Len(alts)
             THEN Return(m, m.fc[f.X])
             ELSE Call_first_of_rhs(SetTop(m, [f EXCEPT !.pc = "got"]), alts[f.k])
        ELSE \* result is the very set object stored in the cache
             SetTop([m EXCEPT !.fc[f.X] = first_merge(@, m.ret)],
                    [f EXCEPT !.pc = "loop", !.k = @ + 1])

\* first_of_rhs: leaving the loop stores the result and returns it
rhs_done(m, rhs, result) == Return([m EXCEPT !.rc = Put(@, rhs, result)], result)

Step_first_of_rhs(m) ==
    LET f == Top(m) IN
    IF f.pc = "loop"
    THEN IF f.k > Len(f.rhs)
         THEN rhs_done(m, f.rhs, f.result \cup {EPS})
         ELSE LET sym == f.rhs[f.k] IN
              IF ~is_nonterminal(sym)
              THEN rhs_done(m, f.rhs, f.result \cup {sym})
              ELSE Call_first(SetTop(m, [f EXCEPT !.pc = "got"]), sym)
    ELSE LET first_sym == m.ret
             result == UpdateNoEps(f.result, first_sym)
         IN  IF EPS \in first_sym
             THEN SetTop(m, [f EXCEPT !.pc = "loop", !.k = @ + 1, !.result = result])
             ELSE rhs_done(m, f.rhs, result)

\* follow_all with an assignment in line 138 instead of setdefault()
Call_follow_all_reset(m) ==
    LET fo1 == [nt \in DOMAIN m.fo \cup Keys(m.p) |->
                    IF nt \in Keys(m.p) THEN {} ELSE m.fo[nt]]
    IN  IF m.start \notin DOMAIN fo1
        THEN Raise([m EXCEPT !.fo = fo1], "KeyError")
        ELSE [m EXCEPT !.fo = [fo1 EXCEPT ![m.start] = @ \cup {END}],
                       !.stack = Append(@, [Frame("follow_all", "while")
                                               EXCEPT !.changed = TRUE])]

\* follow_all without line 141
Call_follow_all_unseeded(m) ==
    LET fo1 == [nt \in DOMAIN m.fo \cup Keys(m.p) |->
                    IF nt \in DOMAIN m.fo THEN m.fo[nt] ELSE {}]
    IN  IF m.start \notin DOMAIN fo1
        THEN Raise([m EXCEPT !.fo = fo1], "KeyError")
        ELSE [m EXCEPT !.fo = fo1,
                       !.stack = Append(@, [Frame("follow_all", "while")
                                               EXCEPT !.changed = TRUE])]

\* follow_all: lines 137-144, up to the first test of "while changed"
Call_follow_all(m) ==
    LET fo1 == [nt \in DOMAIN m.fo \cup Keys(m.p) |->
                    IF nt \in DOMAIN m.fo THEN m.fo[nt] ELSE {}]
    IN  IF m.start \notin DOMAIN fo1
        THEN Raise([m EXCEPT !.fo = fo1], "KeyError")
        ELSE [m EXCEPT !.fo = [fo1 EXCEPT ![m.start] = @ \cup {END}],
                       !.stack = Append(@, [Frame("follow_all", "while")
                                               EXCEPT !.changed = TRUE])]

\* follow_all without lines 170-171
follow_update_first_only(fo, A, B, first_rest, rest) ==
    [fo EXCEPT ![B] = UpdateNoEps(@, first_rest)]

\* follow_all with an assignment in line 167 instead of update()
follow_update_overwrite(fo, A, B, first_rest, rest) ==
    LET fo1 == [fo EXCEPT ![B] = {x \in first_rest : x # EPS}]
    IN  IF EPS \in first_rest \/ Len(rest) = 0
        THEN [fo1 EXCEPT ![B] = @ \cup fo1[A]]
        ELSE fo1

\* follow_all: lines 164-171, the two updates of FOLLOW(B) for one occurrence of B in A -> rhs
follow_update(fo, A, B, first_rest, rest) ==
    LET fo1 == [fo EXCEPT ![B] = UpdateNoEps(@, first_rest)]
    IN  IF EPS \in first_rest \/ Len(rest) = 0
        THEN [fo1 EXCEPT ![B] = @ \cup fo1[A]]
        ELSE fo1

\* follow_all with line 175 outside the test of line 174
follow_changed_always(changed, before, after) == TRUE

\* follow_all: lines 174-175
follow_changed(changed, before, after) == changed \/ after # before

Step_follow_all(m) ==
    LET f == Top(m)
        occ == Occurrences(m.p)
    IN  CASE f.pc = "while" ->
               IF f.changed
               THEN SetTop(m, [f EXCEPT !.changed = FALSE, !.k = 1, !.pc = "for"])
               ELSE [m EXCEPT !.stack = Pop(m)]
          [] f.pc = "for" ->
               IF f.k > Len(occ)
               THEN SetTop(m, [f EXCEPT !.pc = "while"])
               ELSE Call_first_of_rhs(SetTop(m, [f EXCEPT !.pc = "got"]),
                                      Rest(occ[f.k][2], occ[f.k][3]))
          [] f.pc = "got" ->
               LET A == occ[f.k][1]
                   B == occ[f.k][2][occ[f.k][3]]
                   rest == Rest(occ[f.k][2], occ[f.k][3])
               IN  IF B \notin DOMAIN m.fo
                   THEN Raise(m, "KeyError")
                   ELSE LET fo2 == follow_update(m.fo, A, B, m.ret, rest)
                        IN  SetTop([m EXCEPT !.fo = fo2],
                                   [f EXCEPT !.pc = "for", !.k = @ + 1,
                                             !.changed = follow_changed(@, m.fo[B], fo2[B])])

\* prediction_sets: lines 184-186, into follow_all
Call_prediction_sets(m) ==
    Call_follow_all([m EXCEPT !.stack = Append(@, Frame("prediction_sets", "for"))])

\* prediction_sets: lines 196-199
predict(first_rhs, follow_A) ==
    LET pred == {x \in first_rhs : x # EPS}
    IN  IF EPS \in first_rhs THEN pred \cup follow_A ELSE pred

Step_prediction_sets(m) ==
    LET f == Top(m)
        it == Items(m.p)
    IN  IF f.pc = "for"
        THEN IF f.k > Len(it)
             THEN [m EXCEPT !.stack = Pop(m), !.preds = f.preds]
             ELSE Call_first_of_rhs(SetTop(m, [f EXCEPT !.pc = "got"]), it[f.k][2])
        ELSE LET A == it[f.k][1]
                 rhs == it[f.k][2]
             IN  SetTop(m, [f EXCEPT !.pc = "for", !.k = @ + 1,
                                     !.preds = Put(@, Key(A, rhs), predict(m.ret, m.fo[A]))])

Step(m) ==
    CASE Top(m).fn = "first" -> Step_first(m)
      [] Top(m).fn = "first_of_rhs" -> Step_first_of_rhs(m)
      [] Top(m).fn = "follow_all" -> Step_follow_all(m)
      [] Top(m).fn = "prediction_sets" -> Step_prediction_sets(m)

\* a call run to its end, on an object nobody else observes meanwhile
RECURSIVE Run(_)
Run(m) == IF m.stack = <<>> THEN m ELSE Run(Step(m))

\* start is a key and every nonterminal-shaped symbol of every body is a key
ValidG(p, s) ==
    /\ s \in Keys(p)
    /\ \A j \in DOMAIN Items(p) : \A i \in DOMAIN Items(p)[j][2] :
           is_nonterminal(Items(p)[j][2][i]) => Items(p)[j][2][i] \in Keys(p)

\* a constructor that validates its arguments
New_validating(p, s) ==
    [p |-> p, start |-> s, fc |-> <<>>, rc |-> <<>>, fo |-> <<>>,
     stack |-> <<>>, ret |-> {}, preds |-> <<>>,
     raised |-> IF ValidG(p, s) THEN "none" ELSE "ConfigurationError"]

\* Grammar(productions, start): lines 32-43
New(p, s) ==
    [p |-> p, start |-> s, fc |-> <<>>, rc |-> <<>>, fo |-> <<>>,
     stack |-> <<>>, ret |-> {}, preds |-> <<>>, raised |-> "none"]

(***************************************************************************)
(* The grammars the object is constructed on                              *)
(***************************************************************************)
G(p, s) == [p |-> p, start |-> s]

\* productions1 and productions2 of the script's __main__
productions1 ==
    << <<"S", << <<"A", "uno", "B", "C">>, <<"S", "dos">> >> >>,
       <<"A", << <<"B", "C", "D">>, <<"A", "tres">>, <<EPS>> >> >>,
       <<"B", << <<"D", "cuatro", "C", "tres">> >> >>,
       <<"C", << <<"cinco", "D", "B">>, <<EPS>> >> >>,
       <<"D", << <<EPS>> >> >> >>

productions2 ==
    << <<"S", << <<"A", "B", "uno">> >> >>,
       <<"A", << <<"dos", "B">>, <<EPS>> >> >>,
       <<"B", << <<"C", "D">>, <<"tres">> >> >>,
       <<"C", << <<"cuatro", "A", "B">>, <<"cinco">> >> >>,
       <<"D", << <<"seis">>, <<EPS>> >> >> >>

\* the grammars spelled out in the documentation of the analysis
scenario_eps == << <<"S", << <<"A", "b">>, <<"c">> >> >>, <<"A", << <<EPS>> >> >> >>

scenario_chain ==
    << <<"S", << <<"A", "B">> >> >>, <<"A", << <<EPS>> >> >>, <<"B", << <<EPS>> >> >> >>

scenario_leftrec == << <<"S", << <<"S", "a">>, <<"b">> >> >> >>

scenario_mutual ==
    << <<"A", << <<"B", "c">>, <<"d">> >> >>, <<"B", << <<"A", "e">>, <<EPS>> >> >> >>

Named ==
    {G(productions1, "S"), G(productions2, "S"), G(scenario_eps, "S"),
     G(scenario_chain, "S"), G(scenario_leftrec, "S"), G(scenario_mutual, "A")}

\* Every grammar up to a size: one or two keys, bodies over two nonterminal names and
\* one terminal, 'ε' written as in the script (a body of its own) or as the empty body.
\* The size of a grammar is the sum over its bodies of 1 + len(body).
MaxSize == 5

Sym == {"S", "A", "a"}

BodiesOfLen(n) == IF n = 1 THEN [1..1 -> Sym] \cup {<<EPS>>} ELSE [1..n -> Sym]

RECURSIVE AltLists(_)
AltLists(w) ==
    IF w = 0 THEN {<<>>}
    ELSE UNION {{<<b>> \o r : b \in BodiesOfLen(l), r \in AltLists(w - 1 - l)} : l \in 0..(w - 1)}

Generated ==
    LET one == UNION {{<< <<"S", a1>> >> : a1 \in AltLists(w)} : w \in 1..MaxSize}
        two == UNION {{<< <<"S", a1>>, <<"A", a2>> >> :
                          a1 \in AltLists(w[1]), a2 \in AltLists(w[2])} :
                      w \in {v \in (1..MaxSize) \X (1..MaxSize) : v[1] + v[2] <= MaxSize}}
    IN  {G(p, s) : p \in one \cup two, s \in {"S", "A"}}

Grammars == Named \cup Generated

\* the arguments first() is called with: the keys, and the names S and A, key or not
Queries == Keys(productions) \cup {"S", "A"}

(***************************************************************************)
(* The object as a state machine                                           *)
(***************************************************************************)
M == [p |-> productions, start |-> start, fc |-> _first_cache,
      rc |-> _first_rhs_cache, fo |-> _follow_cache,
      stack |-> stack, ret |-> ret, preds |-> preds, raised |-> raised]

Idle == stack = <<>>

\* a public call enters with no value returned and no exception pending
Enter == [M EXCEPT !.ret = {}, !.raised = "none"]

\* what the public call c, finished in m, returned
Value(m, c) ==
    CASE c[1] = "first" -> m.ret
      [] c[1] = "follow_all" -> m.fo
      [] c[1] = "prediction_sets" -> m.preds

Commit(m, c) ==
    /\ _first_cache' = m.fc
    /\ _first_rhs_cache' = m.rc
    /\ _follow_cache' = m.fo
    /\ stack' = m.stack
    /\ ret' = m.ret
    /\ preds' = m.preds
    /\ raised' = m.raised
    /\ cur' = c
    /\ again' = IF Idle THEN c \in DOMAIN returned ELSE again
    /\ returned' = IF m.stack = <<>> /\ m.raised = "none" /\ c \notin DOMAIN returned
                   THEN Put(returned, c, Value(m, c))
                   ELSE returned
    /\ UNCHANGED <<productions, start, twin>>

Init ==
    \E g \in Grammars :
        LET m == New(g.p, g.start) IN
        /\ productions = m.p
        /\ start = m.start
        /\ _first_cache = m.fc
        /\ _first_rhs_cache = m.rc
        /\ _follow_cache = m.fo
        /\ stack = m.stack
        /\ ret = m.ret
        /\ preds = m.preds
        /\ raised = m.raised
        /\ cur = <<"new">>
        /\ again = FALSE
        /\ returned = <<>>
        /\ twin = New(g.p, g.start)

first(X) == Idle /\ Commit(Call_first(Enter, X), <<"first", X>>)

follow_all == Idle /\ Commit(Call_follow_all(Enter), <<"follow_all">>)

prediction_sets == Idle /\ Commit(Call_prediction_sets(Enter), <<"prediction_sets">>)

Running(fn) == ~Idle /\ Top(M).fn = fn

in_first == Running("first") /\ Commit(Step_first(M), cur)

in_first_of_rhs == Running("first_of_rhs") /\ Commit(Step_first_of_rhs(M), cur)

in_follow_all == Running("follow_all") /\ Commit(Step_follow_all(M), cur)

in_prediction_sets == Running("prediction_sets") /\ Commit(Step_prediction_sets(M), cur)

Next ==
    \/ \E X \in Queries : first(X)
    \/ follow_all
    \/ prediction_sets
    \/ in_first
    \/ in_first_of_rhs
    \/ in_follow_all
    \/ in_prediction_sets

Spec == Init /\ [][Next]_vars

\* The interpreter is single-threaded and never suspends a running call.
InCall == in_first \/ in_first_of_rhs \/ in_follow_all \/ in_prediction_sets

\* Two objects on one grammar, each asked for FIRST sets only, in any two orders.
twin_first(X) ==
    /\ Idle
    /\ twin' = Run(Call_first([twin EXCEPT !.ret = {}, !.raised = "none"], X))
    /\ UNCHANGED <<productions, start, _first_cache, _first_rhs_cache, _follow_cache,
                   stack, ret, preds, raised, cur, again, returned>>

TwinNext ==
    \/ \E X \in Keys(productions) : first(X)
    \/ in_first
    \/ in_first_of_rhs
    \/ \E X \in Keys(productions) : twin_first(X)

TwinSpec == Init /\ [][TwinNext]_vars

\* The two recursive grammars of the documentation, every call running to its end.
LiveInit == Init /\ productions \in {scenario_leftrec, scenario_mutual}

LiveNext ==
    \/ \E X \in Keys(productions) : first(X)
    \/ follow_all
    \/ prediction_sets
    \/ InCall

LiveSpec == LiveInit /\ [][LiveNext]_vars /\ WF_vars(InCall)

(***************************************************************************)
(* Reference definitions the claims are stated with                        *)
(***************************************************************************)
Body(j) == Items(productions)[j][2]
Head_(j) == Items(productions)[j][1]

Valid == ValidG(productions, start)

InProgress(X) == \E j \in DOMAIN stack : stack[j].fn = "first" /\ stack[j].X = X

\* FIRST of a sequence from a map F of FIRST sets; the symbol 'ε' stands for the empty string
RECURSIVE TrueScan(_, _)
TrueScan(F, rhs) ==
    IF rhs = <<>> THEN {EPS}
    ELSE LET sym == Head(rhs) IN
         IF sym = EPS THEN TrueScan(F, Tail(rhs))
         ELSE IF ~is_nonterminal(sym) THEN {sym}
         ELSE (F[sym] \ {EPS}) \cup (IF EPS \in F[sym] THEN TrueScan(F, Tail(rhs)) ELSE {})

FirstEquations(F) ==
    [X \in Keys(productions) |->
        UNION {TrueScan(F, Get(productions, X)[r]) : r \in DOMAIN Get(productions, X)}]

RECURSIVE LeastFirst(_)
LeastFirst(F) == LET F2 == FirstEquations(F) IN IF F2 = F THEN F ELSE LeastFirst(F2)

\* the least solution of the FIRST equations of the grammar
TrueFirst == LeastFirst([X \in Keys(productions) |-> {}])

\* C1: on a grammar without dangling references, every entry of the FIRST cache whose
\* computation has ended, and so every set first(X) has returned, is the true FIRST set
\* of its nonterminal, also when it was filled while another nonterminal was in progress.
C1_FirstIsTrueFirst ==
    Valid => \A X \in DOMAIN _first_cache \cap Keys(productions) :
                 ~InProgress(X) => _first_cache[X] = TrueFirst[X]

\* what first(X) returns when asked now
FirstNow(X) ==
    IF X \in DOMAIN _first_cache THEN _first_cache[X] ELSE Run(Call_first(Enter, X)).ret

\* the left-to-right scan of first_of_sequence, recomputed from the FIRST sets first() returns
RECURSIVE Rescan(_)
Rescan(rhs) ==
    IF rhs = <<>> THEN {EPS}
    ELSE LET sym == Head(rhs) IN
         IF ~is_nonterminal(sym) THEN {sym}
         ELSE {x \in FirstNow(sym) : x # EPS}
              \cup (IF EPS \in FirstNow(sym) THEN Rescan(Tail(rhs)) ELSE {})

Returned(c) == Idle /\ cur = c /\ raised = "none"

\* C2: when prediction_sets() has returned, the set of every production A -> alpha is
\* (FIRST(alpha) - {ε}) plus FOLLOW(A) if ε is in FIRST(alpha), with FIRST(alpha) rescanned
\* from the FIRST sets first() returns and FOLLOW(A) taken from follow_all().
C2_PredictComposition ==
    Returned(<<"prediction_sets">>) =>
        \A j \in DOMAIN Items(productions) :
            preds[Key(Head_(j), Body(j))] =
                {x \in Rescan(Body(j)) : x # EPS}
                \cup (IF EPS \in Rescan(Body(j)) THEN _follow_cache[Head_(j)] ELSE {})

\* first_of_sequence(rhs) as the object answers it now
FirstOfRhsNow(rhs) ==
    IF rhs \in DOMAIN _first_rhs_cache THEN _first_rhs_cache[rhs]
    ELSE Run(Call_first_of_rhs(Enter, rhs)).ret

\* the FOLLOW rules, applied once to a map F, every production read from F itself
FollowRules(F) ==
    LET occ == Occurrences(productions) IN
    [X \in Keys(productions) |->
        (IF X = start THEN {END} ELSE {})
        \cup UNION {LET rest == Rest(occ[n][2], occ[n][3])
                        fr == FirstOfRhsNow(rest)
                    IN  {x \in fr : x # EPS}
                        \cup (IF rest = <<>> \/ EPS \in fr THEN F[occ[n][1]] ELSE {})
                    : n \in {n \in DOMAIN occ : occ[n][2][occ[n][3]] = X}}]

RECURSIVE LeastFollowFrom(_)
LeastFollowFrom(F) ==
    LET F2 == FollowRules(F) IN IF F2 = F THEN F ELSE LeastFollowFrom(F2)

LeastFollow == LeastFollowFrom([X \in Keys(productions) |-> {}])

\* follow_all has just returned, to the caller of the object or to prediction_sets
FollowReturned ==
    \/ Returned(<<"follow_all">>)
    \/ /\ Len(stack) = 1
       /\ Top(M).fn = "prediction_sets" /\ Top(M).pc = "for" /\ Top(M).k = 1

\* C3: when follow_all() returns, its result is the least fixed point of the FOLLOW
\* rules ($ in FOLLOW(start); first_of_sequence(rest) - {ε} into FOLLOW(B); FOLLOW(A)
\* into FOLLOW(B) when rest is empty or nullable), and for S -> A B, A -> ε, B -> ε it
\* is FOLLOW(A) = FOLLOW(B) = {$}.
C3_FollowIsLeastFixedPoint ==
    FollowReturned =>
        /\ _follow_cache = LeastFollow
        /\ productions = scenario_chain =>
               _follow_cache["A"] = {END} /\ _follow_cache["B"] = {END}

C3_Witness ==
    /\ FollowReturned
    /\ \E X \in Keys(productions) :
           X # start /\ END \in _follow_cache[X] /\ Cardinality(_follow_cache[X]) >= 2

\* C6: a public call that is repeated returns what it returned the first time, and
\* what first(X) and follow_all() have returned (the cached objects themselves) is
\* never changed by a later call.
C6_Idempotent ==
    /\ (Idle /\ raised = "none" /\ cur \in DOMAIN returned) => Value(M, cur) = returned[cur]
    /\ \A c \in DOMAIN returned : c[1] = "first" => _first_cache[c[2]] = returned[c]
    /\ <<"follow_all">> \in DOMAIN returned => _follow_cache = returned[<<"follow_all">>]

C6_Witness ==
    /\ Returned(<<"prediction_sets">>) /\ again
    /\ \E X \in Keys(productions) : <<"first", X>> \in DOMAIN returned

\* C7: the mapping follow_all() returns has an entry for the start symbol, with $ in it.
C7_StartHasEnd ==
    FollowReturned => start \in DOMAIN _follow_cache /\ END \in _follow_cache[start]

C7_Witness ==
    FollowReturned /\ END \in _follow_cache[start] /\ Cardinality(_follow_cache[start]) >= 2

\* C9: no step of the object, inside a pass of follow_all or across calls, removes a
\* member from a FOLLOW set: every FOLLOW set after a step includes the one before.
C9_FollowMonotone ==
    [][\A X \in DOMAIN _follow_cache :
           X \in DOMAIN _follow_cache' /\ _follow_cache[X] \subseteq _follow_cache'[X]]_vars

C9_Witness ==
    /\ Running("follow_all") /\ Top(M).pc = "for" /\ Top(M).k > 1 /\ Top(M).changed
    /\ \E X \in DOMAIN _follow_cache : Cardinality(_follow_cache[X]) >= 2

NoCallYet == cur = <<"new">>

\* C4 as claimed: a grammar whose start is no key, or with a dangling nonterminal in a
\* body, has no analyzer: construction ended in a ConfigurationError and no call was made.
C4_ConstructionRejects ==
    ~Valid => NoCallYet /\ raised = "ConfigurationError"

\* C4 as the code has it: construction never fails and validates nothing.  On a grammar
\* whose start is no key, or with a dangling nonterminal in a body, the object exists with
\* empty caches, first() returns on it, and the defect surfaces only during the analysis:
\* every follow_all() and prediction_sets() ends in a KeyError.
C4_FailsOnlyInAnalysis ==
    ~Valid =>
        /\ NoCallYet => /\ raised = "none" /\ Idle
                        /\ _first_cache = <<>> /\ _first_rhs_cache = <<>> /\ _follow_cache = <<>>
        /\ (Idle /\ cur[1] = "first") => raised = "none"
        /\ (Idle /\ cur[1] \in {"follow_all", "prediction_sets"}) => raised = "KeyError"

C4_Witness ==
    /\ ~Valid /\ start \in Keys(productions)
    /\ Idle /\ cur = <<"prediction_sets">> /\ raised = "KeyError"
    /\ <<"first", "S">> \in DOMAIN returned

UnknownQuery == Idle /\ cur[1] = "first" /\ cur[2] \notin Keys(productions)

\* C5 as claimed: first(X) for an X that is no key fails with UnknownSymbolError, returns
\* no set and adds no entry for X to the FIRST cache.
C5_UnknownSymbolRejected ==
    UnknownQuery => raised = "UnknownSymbolError" /\ cur[2] \notin DOMAIN _first_cache

\* C5 as the code has it: first(X) for an X that is no key raises nothing; it returns
\* the empty set and leaves the entry X -> {} in the FIRST cache.
C5_UnknownSymbolIsEmpty ==
    UnknownQuery =>
        /\ raised = "none" /\ ret = {}
        /\ cur[2] \in DOMAIN _first_cache /\ _first_cache[cur[2]] = {}

C5_Witness ==
    /\ UnknownQuery /\ cur[2] = "A" /\ ~again
    /\ ret = {} /\ "A" \in DOMAIN _first_cache
    /\ \E j \in DOMAIN Items(productions) : \E i \in DOMAIN Body(j) : Body(j)[i] = "A"

\* C8: every call terminates: a first(X), follow_all() or prediction_sets() that has
\* started, on a left-recursive or mutually recursive grammar too, runs to its end.
C8_Terminates == ~Idle ~> Idle

C8_Witness ==
    /\ productions = scenario_leftrec
    /\ Returned(<<"prediction_sets">>)
    /\ _first_cache["S"] = {"b"}

AllFirstDone(fc) == Keys(productions) \subseteq DOMAIN fc

\* C10: two fresh objects on one grammar that are asked for the FIRST sets of all the
\* nonterminals, in whatever two orders, end with equal FIRST sets for every nonterminal
\* and equal cached FIRST sets for every sequence.
C10_OrderIndependent ==
    (Valid /\ Idle /\ AllFirstDone(_first_cache) /\ AllFirstDone(twin.fc)) =>
        /\ \A X \in Keys(productions) : _first_cache[X] = twin.fc[X]
        /\ _first_rhs_cache = twin.rc

====
